---- MODULE Spec2Model ----
(***************************************************************************)
(* Model of ziggurat's batched, bounded-concurrency translation pipeline:  *)
(* edit_pdf (src/src/pdf.rs) and edit_epub / edit_html                     *)
(* (src/src/filetypes/epub.rs).                                            *)
(*                                                                         *)
(* Both functions build batches of text units, drive them through          *)
(*   stream::iter(batches).map(task).buffer_unordered(max_concurrency)     *)
(* where every task first acquires a permit of a Semaphore of              *)
(* max_concurrency permits and then awaits edit_func(snippets).  The page  *)
(* path gathers the stream with try_collect, the markup path with collect. *)
(* Results arrive in completion order.                                     *)
(***************************************************************************)
EXTENDS Integers, Sequences, FiniteSets, TLC

\* ---------------------------------------------------------------- bounds
MaxPages == 3
MaxNodes == 3
MaxBatchSize == 2
MaxConcurrency == 2
MaxItems == 2
MaxDocLen == 3
MaxTags == 11
MaxSnippets == 3
MaxSide == 25
MaxTextLen == 3
MaxRepeat == 53

VARIABLES
    path,             \* "pdf" (edit_pdf) or "html" (edit_epub -> edit_html)
    batch_size,       \* RequestOptions.batch_size
    max_concurrency,  \* RequestOptions.max_concurrency
    num_items,        \* markup path: doc.get_num_pages(), the spine length
    edit_func,        \* the edit function of the run: "translate" | "identity"
    item,             \* markup path: the spine item edit_epub is at
    edited_content,   \* markup path: ids of the items inserted into edited_content
    phase,            \* "start" | "run" | "written" | "done" | "failed" | "panicked"
    err,              \* why the run failed: "none" | "extract" | "parse" | "translate" | "id"
    pages,            \* page path: the page numbers of doc.get_pages(), in order
    dom0,             \* markup path: the node arena as parsed
    dom,              \* markup path: the node arena as it is now
    text_nodes,       \* markup path: the indices collected at lines 78-82
    snippet_batches,  \* the batches (page path) / chunks (markup path), in creation order
    next_batch,       \* position of stream::iter in snippet_batches
    stream_done,      \* the fused stream has returned None
    buffered,         \* tasks in the buffer_unordered queue that were not polled yet
    in_flight,        \* tasks that hold a permit and await edit_func
    permits,          \* available permits of the semaphore
    results,          \* what the stream has yielded, in completion order
    calls,            \* every call of edit_func so far: [batch, snippets]
    call_failed,      \* some call of edit_func has returned Err
    paginated         \* page path: the (text, page_id) pairs handed to format_content

vars == <<path, batch_size, max_concurrency, num_items, edit_func, item, edited_content,
          phase, err, pages, dom0, dom, text_nodes, snippet_batches, next_batch,
          stream_done, buffered, in_flight, permits, results, calls, call_failed,
          paginated>>

\* State of the placeholder protection of edit_html (epub.rs lines 73, 122-148).
VARIABLES
    tag_pc,           \* "idle" | "input" | "protected" | "edited" | "restored"
    html,             \* the html handed to edit_html, a sequence of symbols
    protected_html,   \* html after replace_special_tags (line 73)
    special_tags,     \* the (placeholder, tag) pairs recorded by replace_special_tags
    translation,      \* what the port did to the text: "identity" | "drop" | "alter"
    edited_html,      \* dom.outer_html() (line 122), the text handed to restore_special_tags
    restored_html     \* the Ok value of edit_html (line 125)

tagVars == <<tag_pc, html, protected_html, special_tags, translation, edited_html,
             restored_html>>

\* State of one call of translate_text (google.rs lines 78-112).
VARIABLES
    port_pc,          \* "idle" | "called" | "sent" | "answered" | "returned" | "failed"
    port_snippets,    \* the snippets handed to translate_text
    requests,         \* the TranslateRequest list that was posted
    translations,     \* response.data.translations
    port_result       \* the Ok value of translate_text

portVars == <<port_pc, port_snippets, requests, translations, port_result>>

PortIdle ==
    /\ port_pc = "idle"
    /\ port_snippets = <<>>
    /\ requests = <<>>
    /\ translations = <<>>
    /\ port_result = <<>>

\* State of the scaling of one image by add_image (pdf.rs lines 325-328).
VARIABLES
    scale_pc,         \* "idle" | "called" | "scaled"
    scale_options,    \* the PdfOptions of the call
    image,            \* the image: [id, width, height]
    scale,            \* calculate_image_scale(..), an f64
    scaled_width,     \* image.width as f64 * scale
    scaled_height     \* image.height as f64 * scale

scaleVars == <<scale_pc, scale_options, image, scale, scaled_width, scaled_height>>

ScaleIdle ==
    /\ scale_pc = "idle"
    /\ scale_options = <<>>
    /\ image = <<>>
    /\ scale = <<>>
    /\ scaled_width = <<>>
    /\ scaled_height = <<>>

\* State of the calls of format_content (pdf.rs lines 221-241).
VARIABLES
    page_pc,          \* "idle" | "called" | "paragraphs" | "words" | "images" | "done"
    page_options,     \* options: &PdfOptions
    units,            \* the (text, images) pairs of the loop at pdf.rs lines 104-110
    unit,             \* the pair format_content is called on
    text,             \* text: &str, a sequence of words and paragraph breaks
    page_images,      \* images: &[PdfImage]
    paragraphs,       \* the paragraphs not yet formatted
    paragraph,        \* the paragraph format_paragraph is working on
    words,            \* its words not yet taken by the loop
    current_line,     \* current_line of format_paragraph
    images_left,      \* the images not yet placed
    pages_state       \* pages_state: [pages, y_pos]

pageVars == <<page_pc, page_options, units, unit, text, page_images, paragraphs, paragraph, words,
              current_line, images_left, pages_state>>

PageIdle ==
    /\ page_pc = "idle"
    /\ page_options = <<>>
    /\ units = <<>>
    /\ unit = 0
    /\ text = <<>>
    /\ page_images = <<>>
    /\ paragraphs = <<>>
    /\ paragraph = <<>>
    /\ words = <<>>
    /\ current_line = <<>>
    /\ images_left = <<>>
    /\ pages_state = <<>>

\* State of the assembly of the output document in edit_pdf (pdf.rs lines
\* 60-66, 104-116).
VARIABLES
    build_pc,         \* "idle" | "start" | "font" | "images" | "pages" | "resources" |
                      \* "tree" | "catalog" | "done"
    unit_images,      \* per paginated unit, the ids (image.id.0) of its images
    contents,         \* the number of Content values in pages_state.pages
    edited_doc,       \* edited_doc: [max_id, objects, root]
    pages_id,         \* pages_id
    font_id,          \* font_id
    page_ids,         \* page_ids
    image_resources,  \* image_resources: the key Im<n> -> object id
    resources_id,     \* resources_id
    next_unit,        \* the unit the loop at lines 104-110 is at
    next_image,       \* the image add_images_to_resources is at, 0 before format_content
    draws             \* the Do operations format_content has put on the pages

buildVars == <<build_pc, unit_images, contents, edited_doc, pages_id, font_id, page_ids,
               image_resources, resources_id, next_unit, next_image, draws>>

BuildIdle ==
    /\ build_pc = "idle"
    /\ unit_images = <<>>
    /\ contents = 0
    /\ edited_doc = <<>>
    /\ pages_id = 0
    /\ font_id = 0
    /\ page_ids = <<>>
    /\ image_resources = <<>>
    /\ resources_id = 0
    /\ next_unit = 0
    /\ next_image = 0
    /\ draws = <<>>

\* The variables of the pure-function specifications; the scheduler leaves
\* them alone.
fnVars == <<tagVars, portVars, scaleVars, pageVars, buildVars>>

TagsIdle ==
    /\ tag_pc = "idle"
    /\ html = <<>>
    /\ protected_html = <<>>
    /\ special_tags = <<>>
    /\ translation = "identity"
    /\ edited_html = <<>>
    /\ restored_html = <<>>

\* ------------------------------------------------------------ data model
Min(a, b) == IF a < b THEN a ELSE b

\* doc.extract_text(&[page_num]): the text of a source page.
PageText(p) == <<"src", p>>

\* doc.get_pages(): page number -> object id of the page.
PageId(p) == <<"obj", p>>

\* What the edit function returns for one snippet when it answers in full: the
\* translation, or the snippet itself from the function that changes nothing
\* (main.rs lines 111, 120).
Translate(s) == IF edit_func = "identity" THEN s ELSE <<"tr", s[2]>>

\* A parsed document: Raw (text) nodes and tag nodes in arena order.
Node(k, i) == [kind |-> k, text |-> IF k = "Raw" THEN <<"src", i>> ELSE <<"tag", i>>]

Doms ==
    UNION { { [i \in 1..n |-> Node(ks[i], i)] : ks \in [1..n -> {"Raw", "Tag"}] }
            : n \in 0..MaxNodes }

RECURSIVE Flatten(_)
Flatten(s) == IF s = <<>> THEN <<>> ELSE Head(s) \o Flatten(Tail(s))

\* ---------------------------------------------------------------- batching
\* Mutant of BatchFull: the batch is closed one element late.
BatchFullLate(len, size) == len > size

\* pdf.rs line 79: the test that closes the current batch.
BatchFull(len, size) == len >= size

\* Mutant of PushRemainder: the remainder is pushed without the emptiness test.
PushRemainderAlways(acc, cur) == Append(acc, cur)

\* pdf.rs lines 84-86: the remainder is pushed only when it is not empty.
PushRemainder(acc, cur) == IF cur # <<>> THEN Append(acc, cur) ELSE acc

\* pdf.rs lines 72-86: the loop over the pages; cur is current_batch, acc is
\* snippet_batches.  Every element is the pair (text, page_id).
RECURSIVE BatchLoop(_, _, _, _)
BatchLoop(ps, size, cur, acc) ==
    IF ps = <<>> THEN PushRemainder(acc, cur)
    ELSE LET c == Append(cur, [text |-> PageText(Head(ps)), page_id |-> PageId(Head(ps))])
         IN  IF BatchFull(Len(c), size)
             THEN BatchLoop(Tail(ps), size, <<>>, Append(acc, c))
             ELSE BatchLoop(Tail(ps), size, c, acc)

PdfBatches(ps, size) == BatchLoop(ps, size, <<>>, <<>>)

\* epub.rs lines 78-82: the indices of the Raw nodes, in arena order.
RECURSIVE ScanNodes(_, _)
ScanNodes(d, i) ==
    IF i > Len(d) THEN <<>>
    ELSE (IF d[i].kind = "Raw" THEN <<i>> ELSE <<>>) \o ScanNodes(d, i + 1)

\* Mutant of CollectTextNodes: every node is collected, tags included.
CollectEveryNode(d) == [i \in 1..Len(d) |-> i]

CollectTextNodes(d) == ScanNodes(d, 1)

\* epub.rs line 88: one step of slice::chunks takes min(len, size) elements.
ChunkLen(len, size) == Min(len, size)

\* epub.rs line 88: text_nodes.chunks(batch_size), for batch_size >= 1
\* (slice::chunks panics when the size is 0).
RECURSIVE Chunks(_, _)
Chunks(v, size) ==
    IF v = <<>> THEN <<>>
    ELSE LET k == ChunkLen(Len(v), size)
         IN  <<SubSeq(v, 1, k)>> \o Chunks(SubSeq(v, k + 1, Len(v)), size)

\* ------------------------------------------------------------------- tasks
NumBatches == Len(snippet_batches)

\* pdf.rs line 94 / epub.rs lines 96-101: the snippets a task hands to edit_func.
\* The page path unzips the batch; the markup path resolves every index of the
\* chunk in the (still unmodified) parser.
Snippets(b) ==
    IF path = "pdf"
    THEN [i \in 1..Len(snippet_batches[b]) |-> snippet_batches[b][i].text]
    ELSE [i \in 1..Len(snippet_batches[b]) |-> dom[snippet_batches[b][i]].text]

\* pdf.rs line 94: the page ids that travel with the batch.
BatchPageIds(b) == [i \in 1..Len(snippet_batches[b]) |-> snippet_batches[b][i].page_id]

\* The reply of the translation port to one call.  "ok": one translation per
\* snippet, in order; "short": a reply that lost its last element; "shifted":
\* a reply that lost its first element, as translate_text gives for a batch
\* whose first snippet is whitespace only (google.rs lines 89-91).
Outcomes == {"ok", "err", "short", "shifted"}

\* The replies the edit function of this run can give: the function that
\* hands its input back (main.rs lines 111, 120) always answers in full.
Replies == IF edit_func = "identity" THEN {"ok"} ELSE Outcomes

PortReply(snippets, outcome) ==
    IF outcome = "ok" THEN [i \in 1..Len(snippets) |-> Translate(snippets[i])]
    ELSE IF outcome = "short"
         THEN [i \in 1..(Len(snippets) - 1) |-> Translate(snippets[i])]
    ELSE IF outcome = "shifted"
         THEN [i \in 1..(Len(snippets) - 1) |-> Translate(snippets[i + 1])]
         ELSE <<>>

\* Sequence.zip: pairs up to the shorter length.
ZipLen(a, b) == Min(Len(a), Len(b))

\* ------------------------------------------------------------ write-back
Err == [ok |-> FALSE, ids |-> <<>>, edited |-> <<>>]

\* pdf.rs line 105: snippets.into_iter().zip(page_ids).
ZipPairs(snips, ids) ==
    [k \in 1..ZipLen(snips, ids) |-> [text |-> snips[k], page_id |-> ids[k]]]

\* pdf.rs lines 104-110: the units handed to format_content, in the order of
\* the loop over results.
PaginationOrder(rs) ==
    Flatten([r \in 1..Len(rs) |-> ZipPairs(rs[r].edited, rs[r].ids)])

\* Mutant of WriteChunk: the position in the chunk is used as the node index.
WriteChunkByPosition(d, chunk, edited) ==
    [i \in 1..Len(d) |->
        IF i <= ZipLen(chunk, edited)
        THEN [kind |-> "Raw", text |-> edited[i]]
        ELSE d[i]]

\* epub.rs lines 113-119: every index of the chunk that zip pairs with an
\* edited snippet is overwritten with a Raw node holding that snippet.
WriteChunk(d, chunk, edited) ==
    [i \in 1..Len(d) |->
        IF \E k \in 1..ZipLen(chunk, edited) : chunk[k] = i
        THEN [kind |-> "Raw",
              text |-> edited[CHOOSE k \in 1..ZipLen(chunk, edited) : chunk[k] = i]]
        ELSE d[i]]

\* Mutant of StopsAt: an Err among the results is skipped.
StopsAtNever(r) == FALSE

\* epub.rs line 112: result? leaves the loop at the first Err.
StopsAt(r) == ~r.ok

\* epub.rs lines 111-120: the loop over the collected results.
RECURSIVE WriteLoop(_, _)
WriteLoop(d, rs) ==
    IF rs = <<>> THEN [dom |-> d, ok |-> TRUE]
    ELSE IF StopsAt(Head(rs)) THEN [dom |-> d, ok |-> FALSE]
    ELSE WriteLoop(WriteChunk(d, Head(rs).ids, Head(rs).edited), Tail(rs))

\* -------------------------------------------------------------------- Init
Init ==
    /\ path \in {"pdf", "html"}
    /\ batch_size \in 0..MaxBatchSize
    /\ max_concurrency \in 0..MaxConcurrency
    /\ num_items \in (IF path = "pdf" THEN {1} ELSE 1..MaxItems)
    /\ edit_func \in {"translate", "identity"}
    /\ item = 1
    /\ edited_content = {}
    /\ phase = "start"
    /\ err = "none"
    /\ pages = <<>>
    /\ dom0 = <<>>
    /\ dom = <<>>
    /\ text_nodes = <<>>
    /\ snippet_batches = <<>>
    /\ next_batch = 1
    /\ stream_done = FALSE
    /\ buffered = {}
    /\ in_flight = {}
    /\ permits = 0
    /\ results = <<>>
    /\ calls = <<>>
    /\ call_failed = FALSE
    /\ paginated = <<>>
    /\ TagsIdle
    /\ PortIdle
    /\ ScaleIdle
    /\ PageIdle
    /\ BuildIdle

\* The scheduler before any document is opened: the state in which the
\* functions below are exercised on their own.
SchedulerIdle ==
    /\ path = "pdf"
    /\ batch_size = 1
    /\ max_concurrency = 1
    /\ num_items = 1
    /\ edit_func = "translate"
    /\ item = 1
    /\ edited_content = {}
    /\ phase = "start"
    /\ err = "none"
    /\ pages = <<>>
    /\ dom0 = <<>>
    /\ dom = <<>>
    /\ text_nodes = <<>>
    /\ snippet_batches = <<>>
    /\ next_batch = 1
    /\ stream_done = FALSE
    /\ buffered = {}
    /\ in_flight = {}
    /\ permits = 0
    /\ results = <<>>
    /\ calls = <<>>
    /\ call_failed = FALSE
    /\ paginated = <<>>

\* The scheduler state of a fresh stream and a fresh semaphore
\* (pdf.rs lines 68, 88; epub.rs lines 86, 89).
FreshScheduler ==
    /\ next_batch' = 1
    /\ stream_done' = FALSE
    /\ buffered' = {}
    /\ in_flight' = {}
    /\ permits' = max_concurrency
    /\ results' = <<>>
    /\ calls' = <<>>

config == <<path, batch_size, max_concurrency, num_items, edit_func>>

\* ----------------------------------------------------------------- actions
\* pdf.rs lines 60-87: edit_pdf up to the first await.  extract_text may fail
\* on any page (line 76), which ends the run before any batch is used.
PdfSetup ==
    /\ UNCHANGED fnVars
    /\ phase = "start"
    /\ path = "pdf"
    /\ \E n \in 0..MaxPages, extract_ok \in BOOLEAN :
        /\ extract_ok \/ n >= 1
        /\ pages' = [i \in 1..n |-> i]
        /\ IF extract_ok
           THEN /\ snippet_batches' = PdfBatches(pages', batch_size)
                /\ phase' = "run"
                /\ err' = err
           ELSE /\ snippet_batches' = <<>>
                /\ phase' = "failed"
                /\ err' = "extract"
    /\ FreshScheduler
    /\ UNCHANGED <<config, item, edited_content, dom0, dom, text_nodes, call_failed,
                   paginated>>

\* epub.rs lines 42-45 and 73-89: edit_epub reaches an xhtml item and edit_html
\* runs up to the first await.  tl::parse may fail (line 75); chunks(0) panics
\* (line 88).
HtmlSetup ==
    /\ UNCHANGED fnVars
    /\ phase = "start"
    /\ path = "html"
    /\ \E d \in Doms, parse_ok \in BOOLEAN :
        IF ~parse_ok
        THEN /\ phase' = "failed"
             /\ err' = "parse"
             /\ UNCHANGED <<dom0, dom, text_nodes, snippet_batches>>
        ELSE /\ dom0' = d
             /\ dom' = d
             /\ text_nodes' = CollectTextNodes(d)
             /\ err' = err
             /\ IF batch_size = 0
                THEN /\ phase' = "panicked"
                     /\ snippet_batches' = <<>>
                ELSE /\ phase' = "run"
                     /\ snippet_batches' = Chunks(text_nodes', batch_size)
    /\ FreshScheduler
    /\ UNCHANGED <<config, item, edited_content, pages, call_failed, paginated>>

\* epub.rs lines 42-55 and 56-61: after an item, go_next; after the last item
\* the run returns Ok(EditedEpub).
AfterItem ==
    IF item < num_items
    THEN /\ item' = item + 1
         /\ phase' = "start"
    ELSE /\ item' = item
         /\ phase' = "done"

\* epub.rs lines 43-44, 54: an item that is not xhtml is left alone.
SkipItem ==
    /\ UNCHANGED fnVars
    /\ phase = "start"
    /\ path = "html"
    /\ AfterItem
    /\ UNCHANGED <<config, edited_content, err, pages, dom0, dom, text_nodes,
                   snippet_batches, next_batch, stream_done, buffered, in_flight,
                   permits, results, calls, call_failed, paginated>>

\* Mutant of Advance: the stream yields the same batch again.
AdvanceStuck(n) == n

\* stream::iter: the position after an item was taken.
Advance(n) == n + 1

\* buffer_unordered (pdf.rs line 99, epub.rs line 106): room in the queue.
HasRoom == Cardinality(buffered \cup in_flight) < max_concurrency

\* buffer_unordered takes the next batch from the stream and queues its task;
\* the task has not run yet.
Pull ==
    /\ UNCHANGED fnVars
    /\ phase = "run"
    /\ ~stream_done
    /\ HasRoom
    /\ next_batch <= NumBatches
    /\ buffered' = buffered \cup {next_batch}
    /\ next_batch' = Advance(next_batch)
    /\ UNCHANGED <<config, item, edited_content, phase, err, pages, dom0, dom,
                   text_nodes, snippet_batches, stream_done, in_flight, permits,
                   results, calls, call_failed, paginated>>

\* buffer_unordered polls the exhausted stream, which then counts as done.
PollEnd ==
    /\ UNCHANGED fnVars
    /\ phase = "run"
    /\ ~stream_done
    /\ HasRoom
    /\ next_batch > NumBatches
    /\ stream_done' = TRUE
    /\ UNCHANGED <<config, item, edited_content, phase, err, pages, dom0, dom,
                   text_nodes, snippet_batches, next_batch, buffered, in_flight,
                   permits, results, calls, call_failed, paginated>>

\* Mutant of Acquire: a task takes two permits.
AcquireTwo(p) == p - 2

\* Semaphore::acquire (pdf.rs line 93, epub.rs line 95).
Acquire(p) == p - 1

\* Mutant of Release: the permit is not given back.
ReleaseLeak(p) == p

\* Dropping _permit at the end of the task (pdf.rs line 97, epub.rs line 104).
Release(p) == p + 1

\* pdf.rs lines 93-95, epub.rs lines 95-102: a queued task is polled, takes a
\* permit and calls edit_func.
Start(b) ==
    /\ UNCHANGED fnVars
    /\ phase = "run"
    /\ b \in buffered
    /\ permits > 0
    /\ permits' = Acquire(permits)
    /\ buffered' = buffered \ {b}
    /\ in_flight' = in_flight \cup {b}
    /\ calls' = Append(calls, [batch |-> b, snippets |-> Snippets(b)])
    /\ UNCHANGED <<config, item, edited_content, phase, err, pages, dom0, dom,
                   text_nodes, snippet_batches, next_batch, stream_done, results,
                   call_failed, paginated>>

\* pdf.rs lines 95-102: the call of batch b returns.  try_collect ends at the
\* first Err: the stream, its queued and running tasks and the results so far
\* are dropped and edit_pdf returns the error.
PdfReturn(b, outcome) ==
    /\ UNCHANGED fnVars
    /\ phase = "run"
    /\ path = "pdf"
    /\ b \in in_flight
    /\ call_failed' = (call_failed \/ outcome = "err")
    /\ IF outcome = "err"
       THEN /\ phase' = "failed"
            /\ err' = "translate"
            /\ results' = <<>>
            /\ buffered' = {}
            /\ in_flight' = {}
            /\ permits' = max_concurrency
       ELSE /\ results' = Append(results,
                    [ok |-> TRUE, ids |-> BatchPageIds(b),
                     edited |-> PortReply(Snippets(b), outcome)])
            /\ in_flight' = in_flight \ {b}
            /\ permits' = Release(permits)
            /\ UNCHANGED <<phase, err, buffered>>
    /\ UNCHANGED <<config, item, edited_content, pages, dom0, dom, text_nodes,
                   snippet_batches, next_batch, stream_done, calls, paginated>>

\* epub.rs lines 102-108: the call of batch b returns.  collect keeps Ok and
\* Err alike and the stream goes on.
HtmlReturn(b, outcome) ==
    /\ UNCHANGED fnVars
    /\ phase = "run"
    /\ path = "html"
    /\ b \in in_flight
    /\ call_failed' = (call_failed \/ outcome = "err")
    /\ results' = Append(results,
            IF outcome = "err" THEN Err
            ELSE [ok |-> TRUE, ids |-> snippet_batches[b],
                  edited |-> PortReply(Snippets(b), outcome)])
    /\ in_flight' = in_flight \ {b}
    /\ permits' = Release(permits)
    /\ UNCHANGED <<config, item, edited_content, phase, err, pages, dom0, dom,
                   text_nodes, snippet_batches, next_batch, stream_done, buffered,
                   calls, paginated>>

\* Mutant of Collected: the stream is taken as ended once every batch was
\* pulled, whether or not its call has returned.
CollectedEarly == phase = "run" /\ stream_done

\* The stream has ended: it is done and its queue is empty.
Collected == phase = "run" /\ stream_done /\ buffered \cup in_flight = {}

\* pdf.rs lines 102-119: the results are paginated in the order they were
\* collected and the document is assembled.
PdfAssemble ==
    /\ UNCHANGED fnVars
    /\ Collected
    /\ path = "pdf"
    /\ paginated' = PaginationOrder(results)
    /\ phase' = "done"
    /\ UNCHANGED <<config, item, edited_content, err, pages, dom0, dom, text_nodes,
                   snippet_batches, next_batch, stream_done, buffered, in_flight,
                   permits, results, calls, call_failed>>

\* epub.rs lines 110-125: the write-back loop; an Err among the results ends
\* edit_html with that error.
WriteBack ==
    /\ UNCHANGED fnVars
    /\ Collected
    /\ path = "html"
    /\ LET w == WriteLoop(dom, results)
       IN  /\ dom' = w.dom
           /\ IF w.ok
              THEN phase' = "written" /\ err' = err
              ELSE phase' = "failed" /\ err' = "translate"
    /\ UNCHANGED <<config, item, edited_content, pages, dom0, text_nodes,
                   snippet_batches, next_batch, stream_done, buffered, in_flight,
                   permits, results, calls, call_failed, paginated>>

\* epub.rs lines 45-55: edit_html returned Ok; the item is inserted under its
\* id (get_current_id may yield None, line 48) and the loop goes on.
InsertEdited ==
    /\ UNCHANGED fnVars
    /\ phase = "written"
    /\ \E id_ok \in BOOLEAN :
        IF id_ok
        THEN /\ edited_content' = edited_content \cup {item}
             /\ AfterItem
             /\ err' = err
        ELSE /\ phase' = "failed"
             /\ err' = "id"
             /\ UNCHANGED <<item, edited_content>>
    /\ UNCHANGED <<config, pages, dom0, dom, text_nodes, snippet_batches,
                   next_batch, stream_done, buffered, in_flight, permits, results,
                   calls, call_failed, paginated>>

Next ==
    \/ PdfSetup
    \/ HtmlSetup
    \/ SkipItem
    \/ Pull
    \/ PollEnd
    \/ \E b \in buffered : Start(b)
    \/ \E b \in in_flight, o \in Replies : PdfReturn(b, o)
    \/ \E b \in in_flight, o \in Replies : HtmlReturn(b, o)
    \/ PdfAssemble
    \/ WriteBack
    \/ InsertEdited

Spec == Init /\ [][Next]_<<vars, fnVars>>

\* One call of edit_pdf or edit_html (one item of the book): the stream, its
\* queue and the semaphore are made anew by every call.
LiveInit ==
    /\ Init
    /\ num_items = 1
    /\ edit_func = "translate"

\* The executor keeps polling the stream and its tasks, and every call of
\* edit_func returns: a step that can be taken is taken in the end.
SpecLive == LiveInit /\ [][Next]_<<vars, fnVars>> /\ WF_<<vars, fnVars>>(Next)

\* ============================================ placeholder protection
\* An html text is a sequence of symbols <<kind, n>>:
\*   <<"x", 0>>    text without '<', '>' or a newline
\*   <<"nl", 0>>   a newline
\*   <<"elem", 0>> a tag that does not contain "pagebreak", such as <p>
\*   <<"tag", i>>  a tag that contains "pagebreak"; i tells its text
\*   <<"P", 0>>    the string "SPECIAL_TAG_"
\*   <<"d", k>>    the decimal digit k
X == <<"x", 0>>
NL == <<"nl", 0>>
Elem == <<"elem", 0>>
Tag(i) == <<"tag", i>>

\* epub.rs line 135: the decimal digits of format!("{}", n).
RECURSIVE Digits(_)
Digits(n) == IF n < 10 THEN << <<"d", n>> >> ELSE Digits(n \div 10) \o << <<"d", n % 10>> >>

\* epub.rs line 135: format!("SPECIAL_TAG_{}", n).
Placeholder(n) == << <<"P", 0>> >> \o Digits(n)

\* str::replace (epub.rs lines 137, 145): every non-overlapping occurrence of
\* pat, found from the left, becomes rep.
RECURSIVE Replace(_, _, _)
Replace(s, pat, rep) ==
    IF Len(s) < Len(pat) THEN s
    ELSE IF SubSeq(s, 1, Len(pat)) = pat
         THEN rep \o Replace(SubSeq(s, Len(pat) + 1, Len(s)), pat, rep)
         ELSE <<Head(s)>> \o Replace(Tail(s), pat, rep)

\* The lines of a text: '.' of the regex does not match a newline.
RECURSIVE SplitLines(_, _)
SplitLines(s, cur) ==
    IF s = <<>> THEN <<cur>>
    ELSE IF Head(s) = NL THEN <<cur>> \o SplitLines(Tail(s), <<>>)
    ELSE SplitLines(Tail(s), Append(cur, Head(s)))

HasAngle(sym) == sym[1] \in {"tag", "elem"}

\* epub.rs line 131: the match of <.*pagebreak.*> in one line, if any: from the
\* first '<' of the line to its last '>', when "pagebreak" lies between.
LineMatch(line) ==
    IF \E i \in 1..Len(line) : line[i][1] = "tag"
    THEN LET first == CHOOSE i \in 1..Len(line) :
                 HasAngle(line[i]) /\ \A j \in 1..(i - 1) : ~HasAngle(line[j])
             last == CHOOSE i \in 1..Len(line) :
                 HasAngle(line[i]) /\ \A j \in (i + 1)..Len(line) : ~HasAngle(line[j])
         IN  <<SubSeq(line, first, last)>>
    ELSE <<>>

\* epub.rs line 133: re.captures_iter(html), the matches in text order.
Captures(h) ==
    LET lines == SplitLines(h, <<>>)
    IN  Flatten([l \in 1..Len(lines) |-> LineMatch(lines[l])])

\* epub.rs lines 133-138: the loop over the matches; st is special_tags.
RECURSIVE ReplaceLoop(_, _, _)
ReplaceLoop(caps, nh, st) ==
    IF caps = <<>> THEN [html |-> nh, special_tags |-> st]
    ELSE LET tag == Head(caps)
             placeholder == Placeholder(Len(st))
         IN  ReplaceLoop(Tail(caps), Replace(nh, tag, placeholder),
                         Append(st, [placeholder |-> placeholder, tag |-> tag]))

\* epub.rs lines 128-141.
replace_special_tags(h) == ReplaceLoop(Captures(h), h, <<>>)

\* epub.rs lines 143-148.
RECURSIVE restore_special_tags(_, _)
restore_special_tags(h, st) ==
    IF st = <<>> THEN h
    ELSE restore_special_tags(Replace(h, Head(st).placeholder, Head(st).tag), Tail(st))

\* The documents the model feeds to edit_html: every text of at most MaxDocLen
\* symbols with two different pagebreak tags, and the texts of up to MaxTags
\* different pagebreak tags, one per line.
SmallDocs ==
    UNION { [1..n -> {X, NL, Elem, Tag(1), Tag(2)}] : n \in 0..MaxDocLen }

TagLines(k) == [i \in 1..(2 * k) |-> IF i % 2 = 1 THEN Tag((i + 1) \div 2) ELSE NL]

LongDocs == { TagLines(k) : k \in 0..MaxTags }

\* The index of the first "SPECIAL_TAG_" in a text, 0 if there is none.
FirstToken(s) ==
    IF \E i \in 1..Len(s) : s[i][1] = "P"
    THEN CHOOSE i \in 1..Len(s) : s[i][1] = "P" /\ \A j \in 1..(i - 1) : s[j][1] # "P"
    ELSE 0

\* The end of the digits that follow position i.
RECURSIVE DigitsEnd(_, _)
DigitsEnd(s, i) == IF i < Len(s) /\ s[i + 1][1] = "d" THEN DigitsEnd(s, i + 1) ELSE i

\* What a translation may do to the protected text (epub.rs lines 75-122, the
\* placeholders are part of the raw text handed to edit_func): hand it back
\* unchanged, lose the first placeholder, or rewrite its "SPECIAL_TAG_" part.
Translated(s, how) ==
    LET i == FirstToken(s)
    IN  IF how = "identity" \/ i = 0 THEN s
        ELSE IF how = "drop"
             THEN SubSeq(s, 1, i - 1) \o SubSeq(s, DigitsEnd(s, i) + 1, Len(s))
             ELSE [s EXCEPT ![i] = X]

TagInit ==
    /\ SchedulerIdle
    /\ PortIdle
    /\ ScaleIdle
    /\ PageIdle
    /\ BuildIdle
    /\ tag_pc = "input"
    /\ html \in SmallDocs \cup LongDocs
    /\ protected_html = <<>>
    /\ special_tags = <<>>
    /\ translation = "identity"
    /\ edited_html = <<>>
    /\ restored_html = <<>>

\* epub.rs line 73.
ProtectTags ==
    /\ tag_pc = "input"
    /\ LET r == replace_special_tags(html)
       IN  protected_html' = r.html /\ special_tags' = r.special_tags
    /\ tag_pc' = "protected"
    /\ UNCHANGED <<html, translation, edited_html, restored_html>>

\* epub.rs lines 75-122: parse, translate the text nodes, serialise.
TranslateHtml ==
    /\ tag_pc = "protected"
    /\ \E how \in {"identity", "drop", "alter"} :
        /\ how = "identity" \/ FirstToken(protected_html) # 0
        /\ translation' = how
        /\ edited_html' = Translated(protected_html, how)
    /\ tag_pc' = "edited"
    /\ UNCHANGED <<html, protected_html, special_tags, restored_html>>

\* epub.rs lines 123-125: the placeholders are put back and the text is
\* returned as Ok; there is no other outcome.
RestoreTags ==
    /\ tag_pc = "edited"
    /\ restored_html' = restore_special_tags(edited_html, special_tags)
    /\ tag_pc' = "restored"
    /\ UNCHANGED <<html, protected_html, special_tags, translation, edited_html>>

TagNext ==
    \/ ProtectTags /\ UNCHANGED <<vars, portVars, scaleVars, pageVars, buildVars>>
    \/ TranslateHtml /\ UNCHANGED <<vars, portVars, scaleVars, pageVars, buildVars>>
    \/ RestoreTags /\ UNCHANGED <<vars, portVars, scaleVars, pageVars, buildVars>>

SpecTags == TagInit /\ [][TagNext]_<<vars, fnVars>>

\* The text of the placeholder token that starts at position i.
TokenAt(s, i) == SubSeq(s, i, DigitsEnd(s, i))

\* Every recorded placeholder is a token of s exactly once, and s has no
\* other placeholder token.
TokensIntact(s, st) ==
    LET at == { i \in 1..Len(s) : s[i][1] = "P" }
    IN  /\ \A k \in 1..Len(st) :
            Cardinality({ i \in at : TokenAt(s, i) = st[k].placeholder }) = 1
        /\ \A i \in at : \E k \in 1..Len(st) : TokenAt(s, i) = st[k].placeholder

\* The number of pagebreak tags of a text.
NumTags(h) == Cardinality({ i \in 1..Len(h) : h[i][1] = "tag" })


\* ============================================ the translation port
\* google.rs lines 114-116: a snippet of whitespace only, the empty one included.
is_whitespace(snippet) == snippet[1] \in {"ws", "empty"}

\* google.rs lines 89-91: Iterator::filter, the kept elements in order.
RECURSIVE Filter(_)
Filter(s) ==
    IF s = <<>> THEN <<>>
    ELSE IF is_whitespace(Head(s)) THEN Filter(Tail(s))
    ELSE <<Head(s)>> \o Filter(Tail(s))

\* The snippet lists the model hands to translate_text.
SnippetLists ==
    UNION { [1..n -> {<<"ws", 0>>, <<"empty", 0>>, <<"src", 1>>, <<"src", 2>>}] :
            n \in 0..MaxSnippets }

PortInit ==
    /\ SchedulerIdle
    /\ TagsIdle
    /\ ScaleIdle
    /\ PageIdle
    /\ BuildIdle
    /\ port_pc = "called"
    /\ port_snippets \in SnippetLists
    /\ requests = <<>>
    /\ translations = <<>>
    /\ port_result = <<>>

\* google.rs lines 89-103: the requests are built and posted.
PostRequests ==
    /\ port_pc = "called"
    /\ requests' = Filter(port_snippets)
    /\ port_pc' = "sent"
    /\ UNCHANGED <<port_snippets, translations, port_result>>

\* google.rs lines 98-104: the service answers one translation per request.
ServiceAnswers ==
    /\ port_pc = "sent"
    /\ translations' = [i \in 1..Len(requests) |-> Translate(requests[i])]
    /\ port_pc' = "answered"
    /\ UNCHANGED <<port_snippets, requests, port_result>>

\* google.rs lines 101-104: the request or the decoding of the answer fails.
ServiceFails ==
    /\ port_pc = "sent"
    /\ port_pc' = "failed"
    /\ UNCHANGED <<port_snippets, requests, translations, port_result>>

\* google.rs lines 106-111.
ReturnTranslations ==
    /\ port_pc = "answered"
    /\ port_result' = translations
    /\ port_pc' = "returned"
    /\ UNCHANGED <<port_snippets, requests, translations>>

PortNext ==
    \/ PostRequests /\ UNCHANGED <<vars, tagVars, scaleVars, pageVars, buildVars>>
    \/ ServiceAnswers /\ UNCHANGED <<vars, tagVars, scaleVars, pageVars, buildVars>>
    \/ ServiceFails /\ UNCHANGED <<vars, tagVars, scaleVars, pageVars, buildVars>>
    \/ ReturnTranslations /\ UNCHANGED <<vars, tagVars, scaleVars, pageVars, buildVars>>

SpecPort == PortInit /\ [][PortNext]_<<vars, fnVars>>

\* ============================================ f64 arithmetic
\* A positive f64 is [m |-> bits, e |-> exponent]: m holds the MantissaBits
\* bits of the significand, most significant first and starting with 1, and
\* the value is m (read as an integer) times 2^e.  Operations round to
\* nearest, ties to even, as IEEE 754 does.  Integers wider than 31 bits
\* are handled in limbs of LimbBits bits.
MantissaBits == 53

LimbBits == 14

LimbBase == 2^LimbBits

\* The k low bits of v, most significant first.
BitsOf(v, k) == [i \in 1..k |-> (v \div 2^(k - i)) % 2]

\* The number of bits of a natural number below 2^30.
BitLen(v) == IF v = 0 THEN 0 ELSE CHOOSE k \in 1..30 : 2^(k - 1) <= v /\ v < 2^k

\* The bits of a natural number, most significant first, none for 0.
IntBits(v) == BitsOf(v, BitLen(v))

\* The number that a sequence of at most LimbBits bits spells.
RECURSIVE BitsVal(_)
BitsVal(b) ==
    IF b = <<>> THEN 0 ELSE 2 * BitsVal(SubSeq(b, 1, Len(b) - 1)) + b[Len(b)]

Zeros(n) == [i \in 1..n |-> 0]

\* bits without its leading zeros; bits holds a 1.
Strip(bits) ==
    LET first == CHOOSE i \in 1..Len(bits) :
            bits[i] = 1 /\ \A j \in 1..(i - 1) : bits[j] = 0
    IN  SubSeq(bits, first, Len(bits))

\* bits + 1, on a sequence that is not all ones.
IncBits(b) ==
    LET z == CHOOSE j \in 1..Len(b) : b[j] = 0 /\ \A k \in (j + 1)..Len(b) : b[k] = 1
    IN  [i \in 1..Len(b) |-> IF i < z THEN b[i] ELSE IF i = z THEN 1 ELSE 0]

\* The f64 nearest to bits * 2^e (+ a nonzero tail below the last bit when
\* sticky); bits starts with 1.
RoundBits(bits, e, sticky) ==
    IF Len(bits) <= MantissaBits
    THEN [m |-> bits \o Zeros(MantissaBits - Len(bits)),
          e |-> e - (MantissaBits - Len(bits))]
    ELSE LET keep == SubSeq(bits, 1, MantissaBits)
             half == bits[MantissaBits + 1]
             rest == sticky \/ \E i \in (MantissaBits + 2)..Len(bits) : bits[i] = 1
             e2 == e + (Len(bits) - MantissaBits)
             up == half = 1 /\ (rest \/ keep[MantissaBits] = 1)
         IN  IF ~up THEN [m |-> keep, e |-> e2]
             ELSE IF \A i \in 1..MantissaBits : keep[i] = 1
                  THEN [m |-> <<1>> \o Zeros(MantissaBits - 1), e |-> e2 + 1]
                  ELSE [m |-> IncBits(keep), e |-> e2]

\* `n as f64` for a positive integer.
FromInt(n) == RoundBits(IntBits(n), 0, FALSE)

\* a / b in f64, for positive integers a and b below LimbBase: long division
\* to five limbs after the point, then rounding.
Div(a, b) ==
    LET q0 == a \div b
        r0 == a % b
        q1 == (r0 * LimbBase) \div b
        r1 == (r0 * LimbBase) % b
        q2 == (r1 * LimbBase) \div b
        r2 == (r1 * LimbBase) % b
        q3 == (r2 * LimbBase) \div b
        r3 == (r2 * LimbBase) % b
        q4 == (r3 * LimbBase) \div b
        r4 == (r3 * LimbBase) % b
        q5 == (r4 * LimbBase) \div b
        r5 == (r4 * LimbBase) % b
        all == IntBits(q0) \o BitsOf(q1, LimbBits) \o BitsOf(q2, LimbBits)
                   \o BitsOf(q3, LimbBits) \o BitsOf(q4, LimbBits) \o BitsOf(q5, LimbBits)
    IN  RoundBits(Strip(all), 0 - 5 * LimbBits, r5 # 0)

\* (n as f64) * x in f64, for a positive integer n below LimbBase: the
\* significand is multiplied limb by limb, lowest first, then rounded.
Mul(n, x) ==
    LET top == MantissaBits - 3 * LimbBits
        l1 == BitsVal(SubSeq(x.m, 1, top))
        l2 == BitsVal(SubSeq(x.m, top + 1, top + LimbBits))
        l3 == BitsVal(SubSeq(x.m, top + LimbBits + 1, top + 2 * LimbBits))
        l4 == BitsVal(SubSeq(x.m, top + 2 * LimbBits + 1, MantissaBits))
        p4 == n * l4
        p3 == n * l3 + p4 \div LimbBase
        p2 == n * l2 + p3 \div LimbBase
        p1 == n * l1 + p2 \div LimbBase
        bits == IntBits(p1) \o BitsOf(p2 % LimbBase, LimbBits)
                    \o BitsOf(p3 % LimbBase, LimbBits) \o BitsOf(p4 % LimbBase, LimbBits)
    IN  RoundBits(bits, x.e, FALSE)

\* x < y on positive f64.
Less(x, y) ==
    \/ x.e < y.e
    \/ /\ x.e = y.e
       /\ \E i \in 1..MantissaBits :
            /\ x.m[i] < y.m[i]
            /\ \A j \in 1..(i - 1) : x.m[j] = y.m[j]

\* f64::min.
FMin(x, y) == IF Less(y, x) THEN y ELSE x

One == FromInt(1)

\* ============================================ image scaling
\* options.rs lines 25-37.
DefaultOptions ==
    [max_width |-> 500, line_height |-> 14, paragraph_spacing |-> 20,
     min_y_pos |-> 50, max_y_pos |-> 750,
     max_image_width |-> 500, max_image_height |-> 700]

\* A PdfOptions for a small page: lines of 10 bytes, 4 lines to a page, images
\* of at most 5 by 7.
SmallOptions ==
    [max_width |-> 70, line_height |-> 14, paragraph_spacing |-> 20,
     min_y_pos |-> 50, max_y_pos |-> 92,
     max_image_width |-> 5, max_image_height |-> 7]

Img(id, w, h) == [id |-> id, width |-> w, height |-> h]

\* pdf.rs lines 346-350.
calculate_image_scale(img, max_width, max_height) ==
    LET width_scale == Div(max_width, img.width)
        height_scale == Div(max_height, img.height)
    IN  FMin(FMin(width_scale, height_scale), One)

\* The images the model scales: under the default options a set of sizes
\* around the limits, under the small options every size up to MaxSide.
DefaultSides == {100, 250, 500, 594, 700, 1000, 1092, 1400}

ScaleInputs ==
    { <<DefaultOptions, Img(1, w, h)>> : w \in DefaultSides, h \in DefaultSides }
        \cup { <<SmallOptions, Img(1, w, h)>> : w \in 1..MaxSide, h \in 1..MaxSide }

ScaleInit ==
    /\ SchedulerIdle
    /\ TagsIdle
    /\ PortIdle
    /\ PageIdle
    /\ BuildIdle
    /\ scale_pc = "called"
    /\ \E in \in ScaleInputs : scale_options = in[1] /\ image = in[2]
    /\ scale = <<>>
    /\ scaled_width = <<>>
    /\ scaled_height = <<>>

\* pdf.rs lines 326-328.
ScaleImage ==
    /\ scale_pc = "called"
    /\ LET sc == calculate_image_scale(image, scale_options.max_image_width,
                                       scale_options.max_image_height)
       IN  /\ scale' = sc
           /\ scaled_width' = Mul(image.width, sc)
           /\ scaled_height' = Mul(image.height, sc)
    /\ scale_pc' = "scaled"
    /\ UNCHANGED <<scale_options, image>>

ScaleNext == ScaleImage /\ UNCHANGED <<vars, tagVars, portVars, pageVars, buildVars>>

SpecScale == ScaleInit /\ [][ScaleNext]_<<vars, fnVars>>

\* ============================================ pagination
\* A text is a sequence of words [id, len, chars] (len: the bytes of the word,
\* chars: its characters) and paragraph breaks; successive words are separated
\* by one space.  Wd is a word of one-byte characters.
Wd(id, len) == [id |-> id, len |-> len, chars |-> len]

\* A word with characters that take more than one byte in UTF-8.
WdUtf8(id, len, chars) == [id |-> id, len |-> len, chars |-> chars]

\* A match of \n\s*\n.
Par == [id |-> 0, len |-> 0, chars |-> 0]

\* pdf.rs line 389.
CHAR_WIDTH == 7

\* The bytes of a line of words joined by single spaces.
RECURSIVE Bytes(_)
Bytes(line) ==
    IF line = <<>> THEN 0
    ELSE IF Len(line) = 1 THEN line[1].len
    ELSE Bytes(SubSeq(line, 1, Len(line) - 1)) + 1 + line[Len(line)].len

\* pdf.rs lines 388-391.
string_width(line) == Bytes(line) * CHAR_WIDTH

\* One content-stream operation (lopdf Operation): the operator, the text of a
\* Tj and up to three numbers.
Op(name, line, a, b, c) ==
    [op |-> name, line |-> line, a |-> a, b |-> b, c |-> c, d |-> 0]

\* pdf.rs lines 369-379: cm with the matrix [width 0 0 height x y].
OpCm(width, height, x, y) ==
    [op |-> "cm", line |-> <<>>, a |-> width, b |-> height, c |-> x, d |-> y]

\* pdf.rs lines 393-399.
new_page_operations ==
    <<Op("BT", <<>>, 0, 0, 0), Op("Tf", <<>>, 12, 0, 0), Op("Td", <<>>, 50, 750, 0)>>

\* pdf.rs lines 26-33: PagesState::new.
NewPagesState(o) == [pages |-> <<new_page_operations>>, y_pos |-> o.max_y_pos]

\* Mutant of PushOps: the operations go to the first page.
PushOpsFirst(pgs, ops) == [pgs EXCEPT ![1] = @ \o ops]

\* last_page.operations.extend(ops).
PushOps(pgs, ops) == [pgs EXCEPT ![Len(pgs)] = @ \o ops]

\* Mutant of add_line_to_page: the line is not shown.
add_line_to_page_blank(st, line, line_height) ==
    [pages |-> PushOps(st.pages, <<Op("Td", <<>>, 0, 0 - line_height, 0)>>),
     y_pos |-> st.y_pos - line_height]

\* pdf.rs lines 271-282.
add_line_to_page(st, line, line_height) ==
    [pages |-> PushOps(st.pages, <<Op("Tj", line, 0, 0, 0),
                                   Op("Td", <<>>, 0, 0 - line_height, 0)>>),
     y_pos |-> st.y_pos - line_height]

\* pdf.rs lines 284-291.
check_and_create_new_page(st, o) ==
    IF st.y_pos < o.min_y_pos
    THEN [pages |-> Append(st.pages, new_page_operations), y_pos |-> o.max_y_pos]
    ELSE st

\* pdf.rs lines 293-317.
add_paragraph_spacing(o, st, paragraph_spacing) ==
    LET y == st.y_pos - paragraph_spacing
        spaced == PushOps(st.pages, <<Op("Td", <<>>, 0, 0 - paragraph_spacing, 0)>>)
    IN  IF y < o.min_y_pos
        THEN [pages |-> Append(PushOps(spaced, <<Op("ET", <<>>, 0, 0, 0),
                                                 Op("BT", <<>>, 0, 0, 0),
                                                 Op("Td", <<>>, 50, o.max_y_pos, 0)>>),
                               new_page_operations),
              y_pos |-> o.max_y_pos]
        ELSE [pages |-> spaced, y_pos |-> y]

\* pdf.rs lines 319-323.
end_text_section(st) == [st EXCEPT !.pages = PushOps(@, <<Op("ET", <<>>, 0, 0, 0)>>)]

\* Mutant of TooWide: a line that is exactly max_width wide is broken too.
TooWideOrEqual(width, max_width) == width >= max_width

\* pdf.rs line 254: string_width(&test_line) > options.max_width.
TooWide(width, max_width) == width > max_width

\* Mutant of format_word: the line is shown with the word that overflows it.
format_word_late(o, st, line, word) ==
    LET test_line == IF line = <<>> THEN <<word>> ELSE Append(line, word)
    IN  IF TooWide(string_width(test_line), o.max_width)
        THEN [st |-> check_and_create_new_page(
                         add_line_to_page(st, test_line, o.line_height), o),
              current_line |-> <<>>]
        ELSE [st |-> check_and_create_new_page(st, o), current_line |-> test_line]

\* pdf.rs lines 248-262: one round of the loop over the words.
format_word(o, st, line, word) ==
    LET test_line == IF line = <<>> THEN <<word>> ELSE Append(line, word)
    IN  IF TooWide(string_width(test_line), o.max_width)
        THEN [st |-> check_and_create_new_page(add_line_to_page(st, line, o.line_height), o),
              current_line |-> <<word>>]
        ELSE [st |-> check_and_create_new_page(st, o), current_line |-> test_line]

\* pdf.rs lines 264-268: the end of format_paragraph.
finish_paragraph(o, st, line) ==
    add_paragraph_spacing(o,
        IF line # <<>> THEN add_line_to_page(st, line, 0) ELSE st,
        o.paragraph_spacing)

\* The value of an f64 that is a whole number below 2^30.
ToInt(x) == BitsVal(SubSeq(x.m, 1, MantissaBits + x.e))

IsWhole(x) ==
    /\ x.e <= 0
    /\ MantissaBits + x.e <= LimbBits
    /\ \A i \in (MantissaBits + x.e + 1)..MantissaBits : x.m[i] = 0

\* pdf.rs lines 352-364.
create_new_page_for_image(st, max_y_pos) ==
    [pages |-> Append(st.pages,
                      new_page_operations \o <<Op("BT", <<>>, 0, 0, 0),
                                               Op("Td", <<>>, 50, max_y_pos, 0),
                                               Op("ET", <<>>, 0, 0, 0)>>),
     y_pos |-> max_y_pos]

\* pdf.rs lines 366-386.
add_image_operations(img, width, height, y_pos) ==
    <<Op("q", <<>>, 0, 0, 0), OpCm(width, height, 50, y_pos - height),
      Op("Do", <<>>, img.id, 0, 0), Op("Q", <<>>, 0, 0, 0)>>

\* Mutant of add_image: the cursor is lowered by the scaled height only.
add_image_no_gap(o, st, img) ==
    LET sc == calculate_image_scale(img, o.max_image_width, o.max_image_height)
        sw == ToInt(Mul(img.width, sc))
        sh == ToInt(Mul(img.height, sc))
        st1 == IF st.y_pos - sh < o.min_y_pos
               THEN create_new_page_for_image(st, o.max_y_pos)
               ELSE st
    IN  [pages |-> PushOps(st1.pages, add_image_operations(img, sw, sh, st1.y_pos)),
         y_pos |-> st1.y_pos - sh]

\* pdf.rs lines 325-344, for an image whose scaled sizes are whole numbers.
add_image(o, st, img) ==
    LET sc == calculate_image_scale(img, o.max_image_width, o.max_image_height)
        sw == ToInt(Mul(img.width, sc))
        sh == ToInt(Mul(img.height, sc))
        st1 == IF st.y_pos - sh < o.min_y_pos
               THEN create_new_page_for_image(st, o.max_y_pos)
               ELSE st
    IN  [pages |-> PushOps(st1.pages, add_image_operations(img, sw, sh, st1.y_pos)),
         y_pos |-> st1.y_pos - (sh + 10)]

\* The paragraph breaks at the head of a text: \s* takes every further break.
RECURSIVE DropPars(_)
DropPars(t) == IF t # <<>> /\ Head(t) = Par THEN DropPars(Tail(t)) ELSE t

\* pdf.rs lines 227-228: Regex::split, the pieces between the matches, the
\* empty ones before a leading and after a trailing match included.
RECURSIVE SplitParagraphs(_, _)
SplitParagraphs(t, cur) ==
    IF t = <<>> THEN <<cur>>
    ELSE IF Head(t) = Par THEN <<cur>> \o SplitParagraphs(DropPars(t), <<>>)
    ELSE SplitParagraphs(Tail(t), Append(cur, Head(t)))

\* The texts the model paginates: every text of at most MaxTextLen words and
\* breaks, and a paragraph of up to MaxRepeat words that take a line each.
SmallTexts ==
    UNION { [1..n -> {Wd(1, 4), Wd(2, 5), Wd(3, 11), Wd(4, 72), WdUtf8(5, 6, 3), Par}] :
            n \in 0..MaxTextLen }

LineWords(n) == [i \in 1..n |-> Wd(i, 40)]

LongTexts == { LineWords(n) : n \in (MaxRepeat - 3)..MaxRepeat }

ImageLists ==
    { <<>>, <<Img(1, 100, 100)>>, <<Img(1, 1000, 700)>>,
      <<Img(1, 100, 100), Img(2, 250, 1400)>> }

Unit(t, imgs) == [text |-> t, images |-> imgs]

\* The units that may follow the first one in the loop of edit_pdf: none, or
\* one of two paragraphs and an image.
FollowUps == { <<>>, <<Unit(<<Wd(1, 4), Par, Wd(2, 5)>>, <<Img(3, 100, 100)>>)>> }

\* The scaled width and height of the image are whole numbers.
WholeScaled(o, img) ==
    LET sc == calculate_image_scale(img, o.max_image_width, o.max_image_height)
    IN  IsWhole(Mul(img.width, sc)) /\ IsWhole(Mul(img.height, sc))

PageInit ==
    /\ SchedulerIdle
    /\ TagsIdle
    /\ PortIdle
    /\ ScaleIdle
    /\ BuildIdle
    /\ page_pc = "called"
    /\ page_options \in {DefaultOptions, SmallOptions}
    /\ \/ text \in SmallTexts /\ page_images \in ImageLists
       \/ text \in LongTexts /\ page_images = <<>>
    /\ \A i \in 1..Len(page_images) : WholeScaled(page_options, page_images[i])
    /\ \E more \in FollowUps : units = <<Unit(text, page_images)>> \o more
    /\ unit = 1
    /\ paragraphs = <<>>
    /\ paragraph = <<>>
    /\ words = <<>>
    /\ current_line = <<>>
    /\ images_left = <<>>
    /\ pages_state = NewPagesState(page_options)

\* pdf.rs lines 227-228.
BeginContent ==
    /\ page_pc = "called"
    /\ paragraphs' = SplitParagraphs(text, <<>>)
    /\ page_pc' = "paragraphs"
    /\ UNCHANGED <<page_options, units, unit, text, page_images, paragraph, words, current_line,
                   images_left, pages_state>>

\* pdf.rs lines 230-231, 244-245: format_paragraph is called on the next
\* paragraph; split_whitespace gives its words.
BeginParagraph ==
    /\ page_pc = "paragraphs"
    /\ paragraphs # <<>>
    /\ paragraph' = Head(paragraphs)
    /\ paragraphs' = Tail(paragraphs)
    /\ words' = Head(paragraphs)
    /\ current_line' = <<>>
    /\ page_pc' = "words"
    /\ UNCHANGED <<page_options, units, unit, text, page_images, images_left, pages_state>>

\* pdf.rs lines 247-262.
WordStep ==
    /\ page_pc = "words"
    /\ words # <<>>
    /\ LET r == format_word(page_options, pages_state, current_line, Head(words))
       IN  pages_state' = r.st /\ current_line' = r.current_line
    /\ words' = Tail(words)
    /\ UNCHANGED <<page_pc, page_options, units, unit, text, page_images, paragraphs, paragraph,
                   images_left>>

\* pdf.rs lines 264-268.
EndParagraph ==
    /\ page_pc = "words"
    /\ words = <<>>
    /\ pages_state' = finish_paragraph(page_options, pages_state, current_line)
    /\ page_pc' = "paragraphs"
    /\ UNCHANGED <<page_options, units, unit, text, page_images, paragraphs, paragraph, words,
                   current_line, images_left>>

\* pdf.rs line 234.
EndText ==
    /\ page_pc = "paragraphs"
    /\ paragraphs = <<>>
    /\ pages_state' = end_text_section(pages_state)
    /\ images_left' = page_images
    /\ page_pc' = "images"
    /\ UNCHANGED <<page_options, units, unit, text, page_images, paragraphs, paragraph, words,
                   current_line>>

\* pdf.rs lines 236-238.
AddImage ==
    /\ page_pc = "images"
    /\ images_left # <<>>
    /\ pages_state' = add_image(page_options, pages_state, Head(images_left))
    /\ images_left' = Tail(images_left)
    /\ UNCHANGED <<page_pc, page_options, units, unit, text, page_images, paragraphs, paragraph,
                   words, current_line>>

\* pdf.rs line 240.
EndContent ==
    /\ page_pc = "images"
    /\ images_left = <<>>
    /\ pages_state' = end_text_section(pages_state)
    /\ page_pc' = "done"
    /\ UNCHANGED <<page_options, units, unit, text, page_images, paragraphs, paragraph, words,
                   current_line, images_left>>

\* pdf.rs lines 104-110: the loop goes on to the next pair and calls
\* format_content on the same PagesState.
NextUnit ==
    /\ page_pc = "done"
    /\ unit < Len(units)
    /\ unit' = unit + 1
    /\ text' = units[unit + 1].text
    /\ page_images' = units[unit + 1].images
    /\ page_pc' = "called"
    /\ UNCHANGED <<page_options, units, paragraphs, paragraph, words, current_line,
                   images_left, pages_state>>

PageNext ==
    \/ BeginContent /\ UNCHANGED <<vars, tagVars, portVars, scaleVars, buildVars>>
    \/ BeginParagraph /\ UNCHANGED <<vars, tagVars, portVars, scaleVars, buildVars>>
    \/ WordStep /\ UNCHANGED <<vars, tagVars, portVars, scaleVars, buildVars>>
    \/ EndParagraph /\ UNCHANGED <<vars, tagVars, portVars, scaleVars, buildVars>>
    \/ EndText /\ UNCHANGED <<vars, tagVars, portVars, scaleVars, buildVars>>
    \/ AddImage /\ UNCHANGED <<vars, tagVars, portVars, scaleVars, buildVars>>
    \/ EndContent /\ UNCHANGED <<vars, tagVars, portVars, scaleVars, buildVars>>
    \/ NextUnit /\ UNCHANGED <<vars, tagVars, portVars, scaleVars, buildVars>>

SpecPage == PageInit /\ [][PageNext]_<<vars, fnVars>>

\* The text lines shown on a page, in order.
TjLines(ops) ==
    LET shown == SelectSeq(ops, LAMBDA o : o.op = "Tj")
    IN  [i \in 1..Len(shown) |-> shown[i].line]

\* The text lines of all pages, in emission order.
AllLines == Flatten([p \in 1..Len(pages_state.pages) |-> TjLines(pages_state.pages[p])])

\* The words of a text, in order.
WordsOf(t) == SelectSeq(t, LAMBDA w : w # Par)

\* The words of the units format_content has been called on, in order.
WordsSoFar == Flatten([u \in 1..unit |-> WordsOf(units[u].text)])

\* The characters of a line of words joined by single spaces.
RECURSIVE Chars(_)
Chars(line) ==
    IF line = <<>> THEN 0
    ELSE IF Len(line) = 1 THEN line[1].chars
    ELSE Chars(SubSeq(line, 1, Len(line) - 1)) + 1 + line[Len(line)].chars

\* The page the next operation goes to: pages_state.pages.last_mut().
LastPage == pages_state.pages[Len(pages_state.pages)]

\* The BT and ET operations of a page, in order.
BlockOps(ops) == SelectSeq(ops, LAMBDA o : o.op \in {"BT", "ET"})

\* The number of operations named name among the first k of a page.
CountOps(ops, name, k) == Cardinality({j \in 1..k : ops[j].op = name})

\* The vertical text position the Td operations of a page add up to: the
\* first one gives the initial position, the later ones are offsets.
RECURSIVE SumTd(_)
SumTd(ops) ==
    IF ops = <<>> THEN 0
    ELSE SumTd(SubSeq(ops, 1, Len(ops) - 1))
         + (IF ops[Len(ops)].op = "Td" THEN ops[Len(ops)].b ELSE 0)

\* The ids of the images shown on the pages, in emission order.
DoIds(ops) ==
    LET shown == SelectSeq(ops, LAMBDA o : o.op = "Do")
    IN  [i \in 1..Len(shown) |-> shown[i].a]

PlacedImages == Flatten([p \in 1..Len(pages_state.pages) |-> DoIds(pages_state.pages[p])])

\* The ids of the images of the units before the current one, then of the
\* first k images of the current unit.
ImageIds(imgs) == [i \in 1..Len(imgs) |-> imgs[i].id]

ImagesUpTo(k) ==
    Flatten([u \in 1..(unit - 1) |-> ImageIds(units[u].images)])
        \o SubSeq(ImageIds(page_images), 1, k)

\* pdf.rs lines 326-328: the scaled sizes of an image.
ScaledSize(o, img) ==
    LET sc == calculate_image_scale(img, o.max_image_width, o.max_image_height)
    IN  [width |-> ToInt(Mul(img.width, sc)), height |-> ToInt(Mul(img.height, sc))]

\* ------------------------------------------------- assembly of the output
\* edit_pdf builds the output document from the paginated pages (pdf.rs lines
\* 60-66 and 104-116).  Document::with_version gives a document with max_id 0
\* and no object.

\* Mutant of new_object_id: the id is handed out and max_id is left alone.
new_object_id_peek(doc) == [doc |-> doc, id |-> doc.max_id + 1]

\* pdf.rs line 61: Document::new_object_id, max_id += 1 and the id (max_id, 0).
new_object_id(doc) == [doc |-> [doc EXCEPT !.max_id = @ + 1], id |-> doc.max_id + 1]

\* doc.objects.insert(id, object): the object stored under id is replaced.
InsertObject(objects, id, object) ==
    [i \in DOMAIN objects \cup {id} |-> IF i = id THEN object ELSE objects[i]]

\* pdf.rs lines 134, 382: format!("Im{}", image.id.0).
ImName(n) == <<"Im", n>>

\* Mutant of resource_key: the key is made from the id of the new object.
resource_key_new(image_id, object_id) == ImName(object_id)

\* pdf.rs line 134: the key resources.set is called with.
resource_key(image_id, object_id) == ImName(image_id)

\* Document::add_object: a new id, and the object stored under it.
add_object(doc, object) ==
    LET r == new_object_id(doc)
    IN  [doc |-> [r.doc EXCEPT !.objects = InsertObject(@, r.id, object)], id |-> r.id]

\* The lists of image ids a source page can have, and the lists of at most
\* MaxUnits pages; two pages may show the same image.
MaxUnits == 2

MaxContents == 3

PageImageIds == {<<>>, <<1>>, <<2>>, <<1, 2>>}

UnitImages == UNION { [1..n -> PageImageIds] : n \in 0..MaxUnits }

BuildInit ==
    /\ SchedulerIdle
    /\ TagsIdle
    /\ PortIdle
    /\ ScaleIdle
    /\ PageIdle
    /\ build_pc = "start"
    /\ unit_images \in UnitImages
    /\ contents \in 1..MaxContents
    /\ edited_doc = [max_id |-> 0, objects |-> <<>>, root |-> 0]
    /\ pages_id = 0
    /\ font_id = 0
    /\ page_ids = <<>>
    /\ image_resources = <<>>
    /\ resources_id = 0
    /\ next_unit = 1
    /\ next_image = 0
    /\ draws = <<>>

\* pdf.rs line 61.
ReservePagesId ==
    /\ build_pc = "start"
    /\ LET r == new_object_id(edited_doc)
       IN  edited_doc' = r.doc /\ pages_id' = r.id
    /\ build_pc' = "font"
    /\ UNCHANGED <<unit_images, contents, font_id, page_ids, image_resources, resources_id,
                   next_unit, next_image, draws>>

\* pdf.rs lines 62, 122-128.
AddFont ==
    /\ build_pc = "font"
    /\ LET r == add_object(edited_doc, [kind |-> "Font"])
       IN  edited_doc' = r.doc /\ font_id' = r.id
    /\ build_pc' = "images"
    /\ UNCHANGED <<unit_images, contents, pages_id, page_ids, image_resources, resources_id,
                   next_unit, next_image, draws>>

\* pdf.rs lines 107, 236-238, 380-383: format_content puts one Do operation
\* per image of the unit on the pages, in the order of the list.
FormatUnit ==
    /\ build_pc = "images"
    /\ next_unit <= Len(unit_images)
    /\ next_image = 0
    /\ draws' = draws \o [i \in 1..Len(unit_images[next_unit]) |->
                              [name |-> ImName(unit_images[next_unit][i]),
                               image |-> unit_images[next_unit][i]]]
    /\ next_image' = 1
    /\ UNCHANGED <<build_pc, unit_images, contents, edited_doc, pages_id, font_id, page_ids,
                   image_resources, resources_id, next_unit>>

\* pdf.rs lines 130-136: one round of the loop of add_images_to_resources,
\* called at line 108 for the images of one unit.
AddImageResource ==
    /\ build_pc = "images"
    /\ next_unit <= Len(unit_images)
    /\ next_image >= 1
    /\ next_image <= Len(unit_images[next_unit])
    /\ LET image_id == unit_images[next_unit][next_image]
           r == add_object(edited_doc, [kind |-> "Image", image |-> image_id])
       IN  /\ edited_doc' = r.doc
           /\ image_resources' =
                  InsertObject(image_resources, resource_key(image_id, r.id), r.id)
    /\ next_image' = next_image + 1
    /\ UNCHANGED <<build_pc, unit_images, contents, pages_id, font_id, page_ids,
                   resources_id, next_unit, draws>>

\* pdf.rs lines 104-110: the loop goes on to the next unit.
NextUnitImages ==
    /\ build_pc = "images"
    /\ next_unit <= Len(unit_images)
    /\ next_image > Len(unit_images[next_unit])
    /\ next_unit' = next_unit + 1
    /\ next_image' = 0
    /\ UNCHANGED <<build_pc, unit_images, contents, edited_doc, pages_id, font_id, page_ids,
                   image_resources, resources_id, draws>>

\* pdf.rs line 112: the loop over the units is over.
BeginPages ==
    /\ build_pc = "images"
    /\ next_unit > Len(unit_images)
    /\ build_pc' = "pages"
    /\ UNCHANGED <<unit_images, contents, edited_doc, pages_id, font_id, page_ids,
                   image_resources, resources_id, next_unit, next_image, draws>>

\* pdf.rs lines 144-152: one round of the loop of add_pages_to_document.
AddPage ==
    /\ build_pc = "pages"
    /\ Len(page_ids) < contents
    /\ LET c == add_object(edited_doc, [kind |-> "Content", content |-> Len(page_ids) + 1])
           pg == add_object(c.doc, [kind |-> "Page", parent |-> pages_id, contents |-> c.id])
       IN  /\ edited_doc' = pg.doc
           /\ page_ids' = Append(page_ids, pg.id)
    /\ UNCHANGED <<build_pc, unit_images, contents, pages_id, font_id, image_resources,
                   resources_id, next_unit, next_image, draws>>

\* pdf.rs lines 114, 157-164.
AddResources ==
    /\ build_pc = "pages"
    /\ Len(page_ids) = contents
    /\ LET r == add_object(edited_doc,
                           [kind |-> "Resources", font |-> font_id, xobject |-> image_resources])
       IN  edited_doc' = r.doc /\ resources_id' = r.id
    /\ build_pc' = "tree"
    /\ UNCHANGED <<unit_images, contents, pages_id, font_id, page_ids, image_resources,
                   next_unit, next_image, draws>>

\* pdf.rs lines 115, 166-180.
AddPagesObject ==
    /\ build_pc = "tree"
    /\ edited_doc' = [edited_doc EXCEPT !.objects =
                          InsertObject(@, pages_id,
                                       [kind |-> "Pages", kids |-> page_ids,
                                        count |-> Len(page_ids), resources |-> resources_id])]
    /\ build_pc' = "catalog"
    /\ UNCHANGED <<unit_images, contents, pages_id, font_id, page_ids, image_resources,
                   resources_id, next_unit, next_image, draws>>

\* pdf.rs lines 116, 182-188.
AddCatalog ==
    /\ build_pc = "catalog"
    /\ LET r == add_object(edited_doc, [kind |-> "Catalog", pages |-> pages_id])
       IN  edited_doc' = [r.doc EXCEPT !.root = r.id]
    /\ build_pc' = "done"
    /\ UNCHANGED <<unit_images, contents, pages_id, font_id, page_ids, image_resources,
                   resources_id, next_unit, next_image, draws>>

BuildNext ==
    \/ ReservePagesId /\ UNCHANGED <<vars, tagVars, portVars, scaleVars, pageVars>>
    \/ AddFont /\ UNCHANGED <<vars, tagVars, portVars, scaleVars, pageVars>>
    \/ FormatUnit /\ UNCHANGED <<vars, tagVars, portVars, scaleVars, pageVars>>
    \/ AddImageResource /\ UNCHANGED <<vars, tagVars, portVars, scaleVars, pageVars>>
    \/ NextUnitImages /\ UNCHANGED <<vars, tagVars, portVars, scaleVars, pageVars>>
    \/ BeginPages /\ UNCHANGED <<vars, tagVars, portVars, scaleVars, pageVars>>
    \/ AddPage /\ UNCHANGED <<vars, tagVars, portVars, scaleVars, pageVars>>
    \/ AddResources /\ UNCHANGED <<vars, tagVars, portVars, scaleVars, pageVars>>
    \/ AddPagesObject /\ UNCHANGED <<vars, tagVars, portVars, scaleVars, pageVars>>
    \/ AddCatalog /\ UNCHANGED <<vars, tagVars, portVars, scaleVars, pageVars>>

SpecBuild == BuildInit /\ [][BuildNext]_<<vars, fnVars>>

\* The ids of the objects of one kind.
ObjectsOf(kind) == {i \in DOMAIN edited_doc.objects : edited_doc.objects[i].kind = kind}

\* The object ids the image-resource dictionary refers to.
Referenced == {image_resources[k] : k \in DOMAIN image_resources}

\* ================================================================= claims
\* The number of units of the current run and the text of the j-th unit.
NumUnits == IF path = "pdf" THEN Len(pages) ELSE Len(text_nodes)

UnitText(j) == IF path = "pdf" THEN PageText(pages[j]) ELSE dom0[text_nodes[j]].text

\* Every reply collected in this run has one element per snippet of its batch.
ContractKept == \A r \in 1..Len(results) : results[r].ok => Len(results[r].edited) = Len(results[r].ids)

\* C1 (as claimed): in the page path, when the run has succeeded with a port
\* that kept its contract, the i-th text handed to pagination is the
\* translation of the i-th source page, whatever the completion order was.
C1_PageOrderPreserved ==
    (path = "pdf" /\ phase = "done" /\ ContractKept) =>
        /\ Len(paginated) = Len(pages)
        /\ \A i \in 1..Len(paginated) : paginated[i].text = Translate(PageText(pages[i]))

\* C2: in the markup path the collected indices are exactly the Raw nodes in
\* document order, no node is changed while batches are running, and after
\* the write-back every collected node holds the translation of its own
\* original text (for a port that returns one result per input).
C2_NodeIdentity ==
    path = "html" =>
        /\ phase \in {"run", "written"} =>
            /\ \A k \in 1..(Len(text_nodes) - 1) : text_nodes[k] < text_nodes[k + 1]
            /\ {text_nodes[k] : k \in 1..Len(text_nodes)}
                   = {i \in 1..Len(dom0) : dom0[i].kind = "Raw"}
        /\ phase = "run" => dom = dom0
        /\ (phase = "written" /\ ContractKept) =>
            \A k \in 1..Len(text_nodes) :
                dom[text_nodes[k]] =
                    [kind |-> "Raw", text |-> Translate(dom0[text_nodes[k]].text)]

\* C2 witness: a write-back after the second chunk completed before the first,
\* in a document that also has a tag node.
C2_Witness ==
    /\ path = "html" /\ phase = "written" /\ ContractKept
    /\ Len(results) >= 2 /\ results[1].ids = snippet_batches[2]
    /\ \E i \in 1..Len(dom0) : dom0[i].kind = "Tag"

\* C3: the calls in flight never exceed max_concurrency, and every call in
\* flight holds exactly one permit from its start to its return, also when
\* the call failed.
C3_ConcurrencyCap ==
    /\ Cardinality(in_flight) <= max_concurrency
    /\ phase \in {"run", "written", "failed"} =>
        /\ permits >= 0
        /\ permits + Cardinality(in_flight) = max_concurrency

\* C3 witness: more batches than permits, max_concurrency calls in flight, and
\* an earlier call has already failed and given its permit back.
C3_Witness ==
    /\ phase = "run" /\ max_concurrency >= 2
    /\ Cardinality(in_flight) = max_concurrency
    /\ call_failed
    /\ NumBatches > max_concurrency

\* C4: with batch_size >= 1 there are ceil(N / batch_size) batches, all but the
\* last of exactly batch_size units, none empty, their concatenation is the
\* input, and every call receives the texts of its batch in input order.
C4_Batching ==
    (phase \in {"run", "written"} /\ batch_size >= 1) =>
        /\ NumBatches = (NumUnits + batch_size - 1) \div batch_size
        /\ \A b \in 1..(NumBatches - 1) : Len(snippet_batches[b]) = batch_size
        /\ \A b \in 1..NumBatches :
              Len(snippet_batches[b]) >= 1 /\ Len(snippet_batches[b]) <= batch_size
        /\ Flatten(snippet_batches) =
              (IF path = "pdf"
               THEN [j \in 1..NumUnits |-> [text |-> PageText(pages[j]), page_id |-> PageId(pages[j])]]
               ELSE text_nodes)
        /\ \A c \in 1..Len(calls) :
              calls[c].snippets =
                  [i \in 1..Len(snippet_batches[calls[c].batch]) |->
                      UnitText((calls[c].batch - 1) * batch_size + i)]

\* C4 witness: two batches, the last one shorter than batch_size, both sent.
C4_Witness ==
    /\ phase = "run" /\ batch_size >= 2
    /\ NumBatches = 2 /\ Len(snippet_batches[2]) < batch_size
    /\ Len(calls) = 2

\* C5: once a call has failed the run has no success result: the page path
\* has returned the error, the markup path is still collecting or has
\* returned the error, the failing item is not inserted and nothing is
\* paginated.
C5_FailureFailsRun ==
    call_failed =>
        /\ phase \in {"run", "failed"}
        /\ path = "pdf" => phase = "failed"
        /\ item \notin edited_content
        /\ paginated = <<>>

\* C5 witness: the markup path has failed at its second item although the
\* first item and another batch of the second item succeeded.
C5_Witness ==
    /\ path = "html" /\ phase = "failed" /\ call_failed
    /\ item = 2 /\ edited_content = {1}
    /\ \E r \in 1..Len(results) : results[r].ok

\* C6: no batch is handed to edit_func twice, and after a successful run every
\* batch was handed to it.
C6_NoRetry ==
    /\ \A i, j \in 1..Len(calls) : calls[i].batch = calls[j].batch => i = j
    /\ phase \in {"written", "done"} =>
          {calls[i].batch : i \in 1..Len(calls)} = 1..NumBatches

\* C6 witness: a successful page run of at least two batches.
C6_Witness ==
    /\ path = "pdf" /\ phase = "done"
    /\ NumBatches >= 2 /\ Len(calls) = NumBatches

\* C7 (as claimed): after a call has failed no further batch is submitted.
C7_NoSubmitAfterFailure == [][call_failed => calls' = calls]_vars

\* C8 (as claimed): a run configured with max_concurrency = 0 (and a valid
\* batch_size, on input that forms at least one batch) never sits in the
\* scheduling phase with nothing left that can happen.
C8_ZeroConcurrencyRejected ==
    (max_concurrency = 0 /\ batch_size >= 1 /\ NumBatches >= 1) =>
        ~(phase = "run" /\ ~ENABLED Next)

\* C9 (as claimed): a run configured with batch_size = 0 (and a valid
\* max_concurrency) forms no batch, makes no call and does not crash.
C9_ZeroBatchSizeRejected ==
    (batch_size = 0 /\ max_concurrency >= 1) =>
        (snippet_batches = <<>> /\ calls = <<>> /\ phase # "panicked")

\* The current run has got past its setup with no unit to translate.
EmptyRun ==
    /\ phase \notin {"start", "failed"}
    /\ max_concurrency >= 1
    /\ IF path = "pdf" THEN pages = <<>> ELSE text_nodes = <<>>

\* What C10 promises of such a run: no batch, no call, no failure, never stuck,
\* and an empty result.
EmptyRunSucceeds ==
    /\ snippet_batches = <<>>
    /\ calls = <<>>
    /\ phase \in {"run", "written", "done"}
    /\ phase = "run" => ENABLED (PollEnd \/ PdfAssemble \/ WriteBack)
    /\ paginated = <<>>
    /\ dom = dom0

\* C10 (as claimed): empty input and max_concurrency >= 1 give a successful
\* run without batches or calls, for every batch_size.
C10_EmptyInputOriginal == EmptyRun => EmptyRunSucceeds

\* C10 (amended): the same for batch_size >= 1.
C10_EmptyInput == (EmptyRun /\ batch_size >= 1) => EmptyRunSucceeds

\* C10 witness: edit_html has returned for a document of tags only.
C10_Witness ==
    /\ path = "html" /\ phase = "written"
    /\ max_concurrency >= 1 /\ batch_size >= 1
    /\ text_nodes = <<>> /\ Len(dom0) >= 1 /\ results = <<>>

\* ---------------------------------------------------------------- C11
\* C11: with a translation that hands every text back unchanged, an html with
\* K pagebreak tags (K >= 0, more than ten included) gets exactly K recorded
\* pairs and is restored to the original text exactly.
RecordsEveryTag == Len(special_tags) = NumTags(html)

RestoresOriginal == restored_html = html

C11_RoundTrip ==
    (tag_pc = "restored" /\ translation = "identity")
        => (RecordsEveryTag /\ RestoresOriginal)

\* ---------------------------------------------------------------- C12
\* C12: after replace_special_tags every recorded placeholder occurs exactly
\* once in the protected text and no placeholder occurs that was not recorded,
\* also when two tags have the same text.
C12_PlaceholdersOnce ==
    tag_pc \in {"protected", "edited", "restored"}
        => TokensIntact(protected_html, special_tags)

\* ---------------------------------------------------------------- C13
\* C13: when the translation dropped or altered a placeholder, edit_html does
\* not return a text: it reports an integrity error.
C13_IntegrityError ==
    ~(/\ tag_pc = "restored"
      /\ translation # "identity"
      /\ TokensIntact(protected_html, special_tags)
      /\ ~TokensIntact(edited_html, special_tags))

\* ---------------------------------------------------------------- C18
\* C18: translate_text returns a list as long as its input whose i-th element
\* is the translation of the i-th input snippet, also for an input that holds
\* whitespace-only snippets.
C18_PortContract ==
    port_pc = "returned"
        => /\ Len(port_result) = Len(port_snippets)
           /\ \A i \in 1..Len(port_snippets) : port_result[i] = Translate(port_snippets[i])

\* ---------------------------------------------------------------- C19
\* C19: pagination and write-back never race the scheduler.  A step that
\* paginates (page path) or overwrites a node (markup path) is taken only when
\* every batch of the document has been pulled and has returned, and a
\* translation call starts only when the text of every page has been extracted
\* into the batches.
AllReturned ==
    /\ stream_done
    /\ buffered \cup in_flight = {}
    /\ Len(results) = NumBatches

AllExtracted ==
    path = "pdf" =>
        LET extracted == Flatten(snippet_batches)
        IN  /\ Len(extracted) = Len(pages)
            /\ \A i \in 1..Len(pages) : extracted[i].text = PageText(pages[i])

C19_NoRace ==
    [][/\ paginated' # paginated => AllReturned
       /\ (phase = "run" /\ dom' # dom) => AllReturned
       /\ calls' # calls => AllExtracted]_<<vars, fnVars>>

C19_Witness ==
    /\ NumBatches >= 2
    /\ \/ path = "pdf" /\ phase = "done" /\ Len(paginated) >= 2
       \/ path = "html" /\ phase = "written" /\ dom # dom0

\* ---------------------------------------------------------------- C20
\* C20: in the page path every text handed to pagination is the translation
\* of the page whose id (and so whose images) it is paginated with, for every
\* completion order of the batches.
C20_OwnPageImages ==
    (path = "pdf" /\ phase = "done") =>
        \A k \in 1..Len(paginated) :
            \E i \in 1..Len(pages) :
                /\ paginated[k].text = Translate(PageText(pages[i]))
                /\ paginated[k].page_id = PageId(pages[i])

\* ---------------------------------------------------------------- C17
\* C17: image scaling never upscales.  For every image of positive width and
\* height the scale is at most 1, the scaled width is at most the smaller of
\* the width and max_image_width, the scaled height at most the smaller of the
\* height and max_image_height, and an image that fits is placed at scale
\* exactly 1.
AtMost(x, n) == ~Less(FromInt(n), x)

Fits == image.width <= scale_options.max_image_width
            /\ image.height <= scale_options.max_image_height

C17_NeverUpscales ==
    scale_pc = "scaled" =>
        /\ ~Less(One, scale)
        /\ AtMost(scaled_width, Min(image.width, scale_options.max_image_width))
        /\ AtMost(scaled_height, Min(image.height, scale_options.max_image_height))
        /\ Fits => scale = One

\* ---------------------------------------------------------------- C14
\* C14: with min_y_pos = 50, max_y_pos = 750 and line_height = 14, a single
\* paragraph that wraps into more than 50 lines on a fresh page has exactly 50
\* lines on the first page, and its 51st line is the first line of a new page.
C14_PageBreakAfter50 ==
    (/\ page_pc = "done"
     /\ unit = 1
     /\ page_options.min_y_pos = 50
     /\ page_options.max_y_pos = 750
     /\ page_options.line_height = 14
     /\ text = WordsOf(text)
     /\ Len(AllLines) > 50)
        => /\ Len(TjLines(pages_state.pages[1])) = 50
           /\ Len(pages_state.pages) >= 2
           /\ TjLines(pages_state.pages[2]) # <<>>
           /\ TjLines(pages_state.pages[2])[1] = AllLines[51]

\* ---------------------------------------------------------------- C15
\* C15: pagination drops no word.  The words of the emitted lines, read in
\* emission order across the pages, are the words of the text in their order,
\* and a word wider than max_width is alone on its line.
C15_NoWordDropped ==
    page_pc = "done" =>
        /\ Flatten(AllLines) = WordsSoFar
        /\ \A l \in 1..Len(AllLines) :
              (\E k \in 1..Len(AllLines[l]) :
                    string_width(<<AllLines[l][k]>>) > page_options.max_width)
                  => Len(AllLines[l]) = 1

C15_Witness ==
    /\ page_pc = "done"
    /\ Len(WordsOf(text)) >= 3
    /\ \E i \in 1..Len(text) : string_width(<<text[i]>>) > page_options.max_width
    /\ Len(pages_state.pages) >= 2

\* ---------------------------------------------------------------- C16
\* C16: a paragraph with at least one word whose whole text is not wider than
\* max_width is emitted as exactly one line: no line is shown while its words
\* are taken, and the end of the paragraph shows one line holding them all.
FitsOneLine ==
    /\ page_pc = "words"
    /\ paragraph # <<>>
    /\ string_width(paragraph) <= page_options.max_width

C27_OnlyRawNodesChange ==
    path = "html" =>
        /\ Len(dom) = Len(dom0)
        /\ \A i \in 1..Len(dom0) : dom0[i].kind # "Raw" => dom[i] = dom0[i]
        /\ edit_func = "identity" => dom = dom0

C27_Witness ==
    /\ path = "html"
    /\ phase = "written"
    /\ edit_func = "identity"
    /\ Len(text_nodes) >= 2
    /\ Len(results) >= 2
    /\ \E i \in 1..Len(dom0) : dom0[i].kind # "Raw"

\* ---------------------------------------------------------------- C28
\* C28: a run never accepts a reply of the wrong length.  When the run (of the
\* current document) has succeeded, every reply had one element per snippet of
\* its batch, every source page has been paginated and every collected text
\* node has been overwritten with an element of a reply.
Overwritten(k) ==
    \E r \in 1..Len(results) :
        /\ results[r].ok
        /\ \E j \in 1..ZipLen(results[r].ids, results[r].edited) :
              results[r].ids[j] = text_nodes[k]

C28_WrongLengthFails ==
    phase \in {"done", "written"} =>
        /\ ContractKept
        /\ path = "pdf" => Len(paginated) = Len(pages)
        /\ path = "html" => \A k \in 1..Len(text_nodes) : Overwritten(k)

C22_WidthByCharacters ==
    /\ string_width(current_line) = Chars(current_line) * CHAR_WIDTH
    /\ \A i \in 1..Len(AllLines) : string_width(AllLines[i]) = Chars(AllLines[i]) * CHAR_WIDTH

\* C23: the end of a paragraph lowers the cursor by paragraph_spacing; when
\* that puts the cursor below min_y_pos, a fresh page is appended, the cursor
\* is max_y_pos, and the last BT/ET operation left on the page before it is
\* an ET.
C23_ParagraphEnd ==
    [][(page_pc = "words" /\ words = <<>>) =>
          LET o == page_options
              y == pages_state.y_pos - o.paragraph_spacing
              n == Len(pages_state.pages)
              left == BlockOps(pages_state'.pages[n])
          IN  IF y < o.min_y_pos
              THEN /\ Len(pages_state'.pages) = n + 1
                   /\ pages_state'.pages[n + 1] = new_page_operations
                   /\ pages_state'.y_pos = o.max_y_pos
                   /\ left[Len(left)].op = "ET"
              ELSE /\ Len(pages_state'.pages) = n
                   /\ pages_state'.y_pos = y
      ]_<<vars, fnVars>>

\* C24: add_image opens a new page first exactly when the cursor less the
\* scaled height is below min_y_pos; the image goes to the last page with
\* x = 50 and its bottom at the cursor less the scaled height; the cursor is
\* lowered by the scaled height plus 10; the images are placed in the order of
\* the list, after all the text of the unit.
C24_ImagePlacement ==
    [][(page_pc = "images" /\ images_left # <<>>) =>
          LET o == page_options
              img == Head(images_left)
              size == ScaledSize(o, img)
              n == Len(pages_state.pages)
              fresh == pages_state.y_pos - size.height < o.min_y_pos
              top == IF fresh THEN o.max_y_pos ELSE pages_state.y_pos
              m == Len(pages_state'.pages)
              last == pages_state'.pages[m]
          IN  /\ m = IF fresh THEN n + 1 ELSE n
              /\ \A p \in 1..n : p < m => pages_state'.pages[p] = pages_state.pages[p]
              /\ ~fresh => SubSeq(last, 1, Len(last) - 4) = pages_state.pages[n]
              /\ SubSeq(last, Len(last) - 3, Len(last)) =
                     <<Op("q", <<>>, 0, 0, 0),
                       OpCm(size.width, size.height, 50, top - size.height),
                       Op("Do", <<>>, img.id, 0, 0),
                       Op("Q", <<>>, 0, 0, 0)>>
              /\ pages_state'.y_pos = top - (size.height + 10)
              /\ AllLines' = AllLines
              /\ Flatten(AllLines) = WordsSoFar
              /\ PlacedImages' = ImagesUpTo(Len(page_images) - Len(images_left) + 1)
      ]_<<vars, fnVars>>

C24_Witness ==
    /\ page_pc = "images"
    /\ images_left = <<>>
    /\ Len(page_images) = 2
    /\ Len(pages_state.pages) = 2
    /\ PlacedImages = ImageIds(page_images)
    /\ \A p \in 1..2 : Len(DoIds(pages_state.pages[p])) = 1
    /\ AllLines # <<>>

\* C29: on every page of the output the BT and ET operations alternate, the
\* first is a BT and the last an ET, and every Tj lies between a BT and its
\* ET.
WellFormed(ops) ==
    LET blk == BlockOps(ops)
    IN  /\ Len(blk) > 0
        /\ Len(blk) % 2 = 0
        /\ \A i \in 1..Len(blk) : blk[i].op = IF i % 2 = 1 THEN "BT" ELSE "ET"
        /\ \A k \in 1..Len(ops) :
               ops[k].op = "Tj" => CountOps(ops, "BT", k) = CountOps(ops, "ET", k) + 1

C29_TextBlocksWellFormed ==
    (page_pc = "done" /\ unit = Len(units)) =>
        \A p \in 1..Len(pages_state.pages) : WellFormed(pages_state.pages[p])

\* C30: whenever a text line is emitted on a page, the cursor equals the
\* initial text position of the page plus the vertical offsets of the moves
\* emitted on the page so far, and the line is positioned below every image
\* of the page.
C30_CursorTracksMoves ==
    [][Len(AllLines') > Len(AllLines) =>
          /\ pages_state.y_pos = SumTd(LastPage)
          /\ \A k \in 1..Len(LastPage) :
                 LastPage[k].op = "cm" => SumTd(LastPage) <= LastPage[k].d
      ]_<<vars, fnVars>>

\* C25: the id of the page tree is reserved before any object is created and
\* no other object is ever stored under it; the finished document has one
\* content stream and one page object per Content of the PagesState, in order,
\* every page has the reserved id as its parent, and the object stored under
\* the reserved id is the page tree, with exactly those page ids as kids, in
\* order, and their number as count.
C25_PageTree ==
    /\ build_pc # "start" =>
          /\ \A i \in DOMAIN edited_doc.objects : pages_id <= i
          /\ pages_id \in DOMAIN edited_doc.objects =>
                 /\ build_pc \in {"catalog", "done"}
                 /\ edited_doc.objects[pages_id].kind = "Pages"
    /\ build_pc = "done" =>
          LET objects == edited_doc.objects
              tree == objects[pages_id]
          IN  /\ Len(page_ids) = contents
              /\ Cardinality(ObjectsOf("Page")) = contents
              /\ Cardinality(ObjectsOf("Content")) = contents
              /\ \A k \in 1..contents :
                     /\ objects[page_ids[k]].kind = "Page"
                     /\ objects[page_ids[k]].parent = pages_id
                     /\ objects[objects[page_ids[k]].contents] =
                            [kind |-> "Content", content |-> k]
              /\ \A j, k \in 1..contents : j < k => page_ids[j] < page_ids[k]
              /\ tree.kind = "Pages"
              /\ tree.kids = page_ids
              /\ tree.count = contents
              /\ objects[edited_doc.root] = [kind |-> "Catalog", pages |-> pages_id]

C25_Witness ==
    /\ build_pc = "done"
    /\ contents >= 2
    /\ ObjectsOf("Image") # {}

\* C26: the finished document has exactly one image object per entry of the
\* image-resource dictionary, and every image object is referred to by it.
C26_OneObjectPerImage ==
    build_pc = "done" =>
        /\ Cardinality(ObjectsOf("Image")) = Cardinality(DOMAIN image_resources)
        /\ ObjectsOf("Image") = Referenced

\* C35: every pagination step appends operations to the last page or appends
\* a new page: the earlier pages are unchanged, the last page of before is a
\* prefix of what it is after, the number of pages never decreases, and there
\* is always a page.
C35_AppendOnly ==
    [][LET old == pages_state.pages
           new == pages_state'.pages
           n == Len(old)
       IN  /\ n >= 1
           /\ Len(new) \in {n, n + 1}
           /\ \A p \in 1..(n - 1) : new[p] = old[p]
           /\ Len(new[n]) >= Len(old[n])
           /\ SubSeq(new[n], 1, Len(old[n])) = old[n]
      ]_<<vars, fnVars>>

C35_Witness ==
    /\ page_pc = "done"
    /\ Len(pages_state.pages) >= 2
    /\ \A p \in 1..2 : TjLines(pages_state.pages[p]) # <<>>
    /\ PlacedImages # <<>>

\* C32: format_paragraph never shows an empty line: every Tj carries a word
\* or more.
C32_NoEmptyLine == \A i \in 1..Len(AllLines) : AllLines[i] # <<>>

\* C31: nothing is drawn below the bottom margin when max_image_height is at
\* most max_y_pos - min_y_pos.  add_image places an image on the current page
\* only when its bottom edge is not below min_y_pos, and otherwise on a fresh
\* page with the cursor at max_y_pos, where the bottom edge is max_y_pos less
\* the scaled height: it is at or above min_y_pos exactly when the scaled
\* height is at most max_y_pos - min_y_pos (for the sizes scaled here the
\* difference of the two f64 values is exact).
C31_AboveBottomMargin ==
    (/\ scale_pc = "scaled"
     /\ scale_options.max_image_height <= scale_options.max_y_pos - scale_options.min_y_pos) =>
        AtMost(scaled_height, scale_options.max_y_pos - scale_options.min_y_pos)

\* C33: in the finished document the name of every Do operation on the pages
\* is a key of the image-resource dictionary, and the key refers to an image
\* object made from an image with the id of the image the Do was emitted for.
C33_DrawsResolve ==
    build_pc = "done" =>
        \A i \in 1..Len(draws) :
            /\ draws[i].name \in DOMAIN image_resources
            /\ LET id == image_resources[draws[i].name]
               IN  /\ id \in DOMAIN edited_doc.objects
                   /\ edited_doc.objects[id] = [kind |-> "Image", image |-> draws[i].image]

C33_Witness ==
    /\ build_pc = "done"
    /\ \E i, j \in 1..Len(draws) : i < j /\ draws[i] = draws[j]
    /\ \E i, j \in 1..Len(draws) : draws[i] # draws[j]

\* C34: with batch_size >= 1 and max_concurrency >= 1, when every call
\* returns the run finishes, with a result or an error; when the stream has
\* ended every batch was submitted to edit_func, and a run that has finished
\* has no task left waiting for a permit.
Finished == phase \in {"done", "failed"}

Submitted(b) == \E c \in 1..Len(calls) : calls[c].batch = b

C34_NoDeadlock ==
    (batch_size >= 1 /\ max_concurrency >= 1) =>
        /\ <>Finished
        /\ [](Collected => \A b \in 1..NumBatches : Submitted(b))
        /\ [](Finished => buffered = {})
        /\ [](buffered # {} => permits > 0)

C34_Witness ==
    /\ phase = "done"
    /\ batch_size >= 1
    /\ max_concurrency = 1
    /\ Len(calls) >= 2
    /\ \A b \in 1..NumBatches : Submitted(b)

====
